---- MODULE Spec2Model ----
(***************************************************************************)
(* poisson::problem(mesh) of src/poisson_problem.cpp (Trilinos variant),   *)
(* run by several MPI ranks on one communicator.                           *)
(*                                                                         *)
(* The mesh is a chain of NCells cells; cell c carries the two degrees of  *)
(* freedom c and c+1.  Every rank owns a contiguous range of global dof    *)
(* indices and sees, as ghosts, the dofs of its cells that another rank    *)
(* owns.  Matrix and vector entries are integers (exact arithmetic); a     *)
(* norm is represented by the sum of the squares it is the root of.        *)
(***************************************************************************)
EXTENDS Integers, Sequences, FiniteSets, TLC

NCells == 3

\* the ranks of the communicator mesh->mpi_comm()
Ranks == {0, 1}
Cells == 0 .. NCells - 1
Dofs  == 0 .. NCells

VARIABLES
  owner,        \* mesh: dof -> owning rank
  cellOwner,    \* mesh: cell -> rank that assembles it
  coord,        \* mesh: dof -> x coordinate (x.row(0))
  extra,        \* rank -> contribution the assembler issues besides the form's
  pc,           \* rank -> index into Program
  call,         \* rank -> blocks already handed over by the running assembler call
  inColl,       \* rank -> inside a collective call, waiting for the others
  sendbuf,      \* rank -> collective -> what the rank contributed to it
  trace,        \* rank -> steps performed so far (history)
  V,            \* rank -> the function space: its index map and cells
  u0,           \* rank -> boundary function values (local dof -> value)
  bdofs,        \* rank -> located boundary dofs (local indices)
  crs_graph,    \* rank -> owned global row -> inserted global column indices
  A_Tpetra,     \* rank -> (row, col) -> value, the owned rows
  nonlocals,    \* rank -> (row, col) -> value stashed for rows of other ranks
  Tpetra_norm,  \* rank -> Frobenius norm (squared) of A_Tpetra
  b_eigen,      \* rank -> local dof -> value (owned and ghost)
  b_Tpetra,     \* rank -> owned local dof -> value
  A,            \* rank -> (row, col) -> value, the owned rows of the PETSc matrix
  stash,        \* rank -> (row, col) -> value, PETSc stash for other ranks' rows
  b,            \* rank -> local dof -> value, PETSc ghosted vector
  norm,         \* rank -> last value written by MatNorm / VecNorm (squared)
  s,            \* rank -> the stringstream, a sequence of lines
  u,            \* rank -> the solution function
  cout,         \* rank -> what was written to standard output
  result,       \* rank -> the returned tuple
  failure       \* rank -> the exception thrown by problem()'s own code

mesh == <<owner, cellOwner, coord, extra>>
vars == <<owner, cellOwner, coord, extra, pc, call, inColl, sendbuf, trace, V, u0,
          bdofs,
          crs_graph, A_Tpetra, nonlocals, Tpetra_norm, b_eigen, b_Tpetra, A,
          stash, b, norm, s, u, cout, result, failure>>

-----------------------------------------------------------------------------
(* Generic helpers *)

Min(S) == CHOOSE m \in S : \A n \in S : m <= n

RECURSIVE SortedSeq(_)
SortedSeq(S) == IF S = {} THEN << >> ELSE <<Min(S)>> \o SortedSeq(S \ {Min(S)})

RECURSIVE SumSeq(_)
SumSeq(q) == IF q = << >> THEN 0 ELSE Head(q) + SumSeq(Tail(q))

RECURSIVE SumFun(_, _)
SumFun(f, D) == IF D = {} THEN 0
                ELSE LET d == CHOOSE e \in D : TRUE IN f[d] + SumFun(f, D \ {d})

SeqSet(q) == {q[i] : i \in 1 .. Len(q)}

IsPrefix(p, q) == Len(p) <= Len(q) /\ \A i \in 1 .. Len(p) : p[i] = q[i]

\* f with v added at position p (the position is created when absent)
AddAt(f, p, v) == IF p \in DOMAIN f THEN [f EXCEPT ![p] = @ + v]
                  ELSE f @@ (p :> v)

Zero(D) == [p \in D |-> 0]

-----------------------------------------------------------------------------
(* Coordinates.  A coordinate <<k, e>> stands for k/2 + e * 2^-53, so that  *)
(* DBL_EPSILON = 2^-52 is <<0, 2>> and the comparisons of the predicate are *)
(* exact; |e| stays far below 2^52, which makes the order lexicographic.    *)

DBL_EPSILON == <<0, 2>>
One == <<2, 0>>
Minus(x, y) == <<x[1] - y[1], x[2] - y[2]>>
Less(x, y) == x[1] < y[1] \/ (x[1] = y[1] /\ x[2] < y[2])

Marker(x) == Less(x, DBL_EPSILON) \/ Less(Minus(One, DBL_EPSILON), x)

\* coordinates next to the two thresholds of the marker
LowValues == {<<0, 1>>, <<0, 2>>}
HighValues == {<<2, -2>>, <<2, -1>>}

-----------------------------------------------------------------------------
(* The index map of the function space V (V->dofmap()->index_map), as     *)
(* create_functionspace lays it out on rank r: the owned dofs first, in    *)
(* global order, then the ghosts.                                          *)

CellDofs(c) == <<c, c + 1>>

IndexMap(r) ==
  LET owned == {d \in Dofs : owner[d] = r}
      cells == {c \in Cells : cellOwner[c] = r}
      ghosts == {d \in Dofs : \E c \in cells : d \in SeqSet(CellDofs(c))} \ owned
      first == Cardinality({d \in Dofs : owner[d] < r})
      n == Cardinality(owned)
  IN [owned |-> owned, cells |-> cells, ghosts |-> ghosts,
      size_local |-> n, local_range |-> <<first, first + n>>,
      global_indices |-> [i \in 0 .. n + Cardinality(ghosts) - 1 |->
                            IF i < n THEN first + i
                            ELSE SortedSeq(ghosts)[i - n + 1]]]

Owned(r) == V[r].owned
LocalCells(r) == V[r].cells
Ghosts(r) == V[r].ghosts

size_local(r) == V[r].size_local
num_ghosts(r) == Cardinality(V[r].ghosts)
r0(r) == V[r].local_range[1]

global_indices(r) == V[r].global_indices
LocalDofs(r) == DOMAIN V[r].global_indices
OwnedLocal(r) == 0 .. size_local(r) - 1

LocalOf(r, g) == CHOOSE i \in LocalDofs(r) : global_indices(r)[i] = g

-----------------------------------------------------------------------------
(* The forms a and L (Poisson.h) as the assembler sees them: one element    *)
(* matrix and one element vector per cell.                                  *)

stiffness(c) == c + 1

\* element matrix of cell c, entry (i, j) of the two cell dofs
ElemA(c, i, j) == IF i = j THEN stiffness(c) ELSE - stiffness(c)

\* element vector of cell c, entry i
ElemB(c, i) == stiffness(c) + i

\* dofs coupled to dof g by some cell of the mesh (on any rank)
Coupled(g) == {h \in Dofs : \E c \in Cells : {g, h} \subseteq SeqSet(CellDofs(c))}

\* pattern.assemble(); pattern.diagonal_pattern(): local columns of owned rows
diagonal_pattern(r) ==
  [i \in OwnedLocal(r) |->
     SortedSeq({h - r0(r) : h \in Coupled(r0(r) + i) \cap Owned(r)})]

\* pattern.off_diagonal_pattern(): global columns owned by other ranks
off_diagonal_pattern(r) ==
  [i \in OwnedLocal(r) |-> SortedSeq(Coupled(r0(r) + i) \ Owned(r))]

nnz(r) ==
  [i \in OwnedLocal(r) |->
     Len(diagonal_pattern(r)[i]) + Len(off_diagonal_pattern(r)[i])]

-----------------------------------------------------------------------------
(* The Tpetra sparsity graph *)

\* a variant without q += r0: the diagonal links go in as local indices
GraphIndicesUnshifted(r, i) ==
  diagonal_pattern(r)[i] \o off_diagonal_pattern(r)[i]

\* the column indices handed to insertGlobalIndices for owned row i
GraphIndices(r, i) ==
  [k \in 1 .. Len(diagonal_pattern(r)[i]) |-> diagonal_pattern(r)[i][k] + r0(r)]
    \o off_diagonal_pattern(r)[i]

\* the loop over the owned rows: row global_indices[i] receives GraphIndices(i)
BuildGraph(r) ==
  [g \in {global_indices(r)[i] : i \in OwnedLocal(r)} |->
     GraphIndices(r, LocalOf(r, g))]

\* the positions of the graph, as (global row, global column)
GraphPositions(r) ==
  UNION {{<<g, h>> : h \in SeqSet(crs_graph[r][g])} : g \in DOMAIN crs_graph[r]}

-----------------------------------------------------------------------------
(* What the assembler hands to the insertion callback: blocks              *)
(* [rows, cols, data] of local row and column indices and row-major data.  *)

Block(rows, cols, data) == [rows |-> rows, cols |-> cols, data |-> data]

\* assemble_matrix(., a, {bc}): the element matrix of cell c with the rows
\* and the columns of boundary dofs set to zero
ElementBlock(r, c) ==
  LET d == [k \in 1 .. 2 |-> LocalOf(r, CellDofs(c)[k])]
  IN Block(d, d,
       [k \in 1 .. 4 |->
          LET i == ((k - 1) \div 2) + 1
              j == ((k - 1) % 2) + 1
          IN IF d[i] \in bdofs[r] \/ d[j] \in bdofs[r] THEN 0 ELSE ElemA(c, i, j)])

FormBlocks(r) ==
  LET cs == SortedSeq(LocalCells(r))
  IN [k \in 1 .. Len(cs) |-> ElementBlock(r, cs[k])]

NoExtra == [rows |-> << >>, cols |-> << >>]

\* the calls of assemble_matrix on rank r: the form's blocks and, when the
\* mesh names one, the extra block after the first of them
AssembleBlocks(r) ==
  LET fb == FormBlocks(r)
      e == extra[r]
      at == IF fb = << >> THEN 0 ELSE 1
  IN IF e.rows = << >> THEN fb
     ELSE SubSeq(fb, 1, at)
            \o <<Block(e.rows, e.cols, [k \in 1 .. Len(e.rows) * Len(e.cols) |-> 1])>>
            \o SubSeq(fb, at + 1, Len(fb))

\* a variant that adds 1.0 for the ghost boundary dofs as well
DiagonalBlocksAllDofs(r) ==
  LET ds == SortedSeq(bdofs[r])
  IN [k \in 1 .. Len(ds) |-> Block(<<ds[k]>>, <<ds[k]>>, <<1>>)]

\* add_diagonal(., V, {bc}): 1.0 on the diagonal of every owned boundary dof
DiagonalBlocks(r) ==
  LET ds == SortedSeq(bdofs[r] \cap OwnedLocal(r))
  IN [k \in 1 .. Len(ds) |-> Block(<<ds[k]>>, <<ds[k]>>, <<1>>)]

-----------------------------------------------------------------------------
(* The Tpetra matrix and the insertion callback tpetra_insert *)

\* the rows of vecMap, the row map of crs_graph and A_Tpetra on rank r
VecMap(r) == {global_indices(r)[i] : i \in OwnedLocal(r)}

\* row i (1-based) of the row-major data of a block
DataRow(blk, i) ==
  [j \in 1 .. Len(blk.cols) |-> blk.data[(i - 1) * Len(blk.cols) + j]]

\* columns j .. nc of one owned row: a value is added where the static graph
\* has the position; n counts the positions found
RECURSIVE SumRow(_, _, _, _, _)
SumRow(M, grow, gcols, vals, j) ==
  IF j > Len(gcols) THEN [M |-> M, n |-> 0]
  ELSE IF <<grow, gcols[j]>> \in DOMAIN M
       THEN LET rest == SumRow([M EXCEPT ![<<grow, gcols[j]>>] = @ + vals[j]],
                               grow, gcols, vals, j + 1)
            IN [M |-> rest.M, n |-> rest.n + 1]
       ELSE SumRow(M, grow, gcols, vals, j + 1)

RECURSIVE StashRow(_, _, _, _, _)
StashRow(N, grow, gcols, vals, j) ==
  IF j > Len(gcols) THEN N
  ELSE StashRow(AddAt(N, <<grow, gcols[j]>>, vals[j]), grow, gcols, vals, j + 1)

\* A_Tpetra->sumIntoGlobalValues(grow, col_view, data_view): a row of another
\* rank is stashed for fillComplete and counts as fully valid
sumIntoGlobalValues(r, M, N, grow, gcols, vals) ==
  IF grow \notin VecMap(r)
  THEN [M |-> M, N |-> StashRow(N, grow, gcols, vals, 1), nvalid |-> Len(gcols)]
  ELSE LET res == SumRow(M, grow, gcols, vals, 1)
       IN [M |-> res.M, N |-> N, nvalid |-> res.n]

\* std::to_string of a non-negative integer: its decimal digits
RECURSIVE to_string(_)
to_string(n) == IF n < 10 THEN <<n>> ELSE to_string(n \div 10) \o <<n % 10>>

runtime_error(grow) ==
  [raised |-> TRUE, what |-> "Could not insert on row ", row |-> to_string(grow)]
NoFailure == [raised |-> FALSE, what |-> "", row |-> << >>]

\* a variant with the test the wrong way round
InsertFailedGreater(nvalid, nc) == nvalid > nc

\* if (nvalid != nc) throw
InsertFailed(nvalid, nc) == nvalid # nc

\* the row named in the exception
FailedRow(r, blk, i) == global_indices(r)[blk.rows[i]]

\* rows i .. nr of one call of tpetra_insert; done counts the rows summed
\* without a failure
RECURSIVE InsertRows(_, _, _, _, _)

\* a variant that goes on with the rows after the failed one
InsertRowsNoStop(r, M, N, blk, i) ==
  IF i > Len(blk.rows) THEN [M |-> M, N |-> N, failure |-> NoFailure, done |-> i - 1]
  ELSE LET gcols == [j \in 1 .. Len(blk.cols) |-> global_indices(r)[blk.cols[j]]]
           res == sumIntoGlobalValues(r, M, N, global_indices(r)[blk.rows[i]],
                                      gcols, DataRow(blk, i))
           rest == InsertRows(r, res.M, res.N, blk, i + 1)
       IN IF InsertFailed(res.nvalid, Len(blk.cols)) /\ ~rest.failure.raised
          THEN [rest EXCEPT !.failure = runtime_error(FailedRow(r, blk, i))]
          ELSE rest

\* the loop of tpetra_insert: the first failed row ends it
InsertRows(r, M, N, blk, i) ==
  IF i > Len(blk.rows) THEN [M |-> M, N |-> N, failure |-> NoFailure, done |-> i - 1]
  ELSE LET gcols == [j \in 1 .. Len(blk.cols) |-> global_indices(r)[blk.cols[j]]]
           res == sumIntoGlobalValues(r, M, N, global_indices(r)[blk.rows[i]],
                                      gcols, DataRow(blk, i))
       IN IF InsertFailed(res.nvalid, Len(blk.cols))
          THEN [M |-> res.M, N |-> res.N,
                failure |-> runtime_error(FailedRow(r, blk, i)), done |-> i - 1]
          ELSE InsertRows(r, res.M, res.N, blk, i + 1)

tpetra_insert(r, M, N, blk) == InsertRows(r, M, N, blk, 1)

\* a fillComplete that exchanges nothing
KeepOwnRows(r, M, label) == M

\* globalAssemble of fillComplete: the entries the ranks stashed for rows of
\* rank r are summed into the positions of its static graph
ReceiveStashed(r, M, label) ==
  [p \in DOMAIN M |->
     M[p] + SumFun([q \in Ranks |->
                      IF p \in DOMAIN sendbuf[q][label] THEN sendbuf[q][label][p] ELSE 0],
                   Ranks \ {r})]

SumSquares(f) == SumFun([p \in DOMAIN f |-> f[p] * f[p]], DOMAIN f)

-----------------------------------------------------------------------------
(* The PETSc matrix *)

\* create_matrix(a): the owned rows, preallocated with the pattern of a
PatternPositions(r) == {p \in Owned(r) \X Dofs : p[2] \in Coupled(p[1])}

\* PETScMatrix::add_fn: MatSetValuesLocal(A, nr, rows, nc, cols, data,
\* ADD_VALUES), entry k of the row-major data onwards
RECURSIVE add_values(_, _, _, _, _)
add_values(r, M, S, blk, k) ==
  IF k > Len(blk.rows) * Len(blk.cols) THEN [M |-> M, S |-> S]
  ELSE LET i == ((k - 1) \div Len(blk.cols)) + 1
           j == ((k - 1) % Len(blk.cols)) + 1
           p == <<global_indices(r)[blk.rows[i]], global_indices(r)[blk.cols[j]]>>
       IN IF p[1] \in Owned(r)
          THEN add_values(r, AddAt(M, p, blk.data[k]), S, blk, k + 1)
          ELSE add_values(r, M, AddAt(S, p, blk.data[k]), blk, k + 1)

add_fn(r, M, S, blk) == add_values(r, M, S, blk, 1)

\* MatAssemblyEnd: the stashed entries reach the owners of their rows
ReceiveStash(r, M, label) ==
  LET D == DOMAIN M \cup
           {p \in UNION {DOMAIN sendbuf[q][label] : q \in Ranks \ {r}} : p[1] \in Owned(r)}
  IN [p \in D |->
        (IF p \in DOMAIN M THEN M[p] ELSE 0)
        + SumFun([q \in Ranks |->
                    IF p \in DOMAIN sendbuf[q][label] THEN sendbuf[q][label][p] ELSE 0],
                 Ranks \ {r})]

-----------------------------------------------------------------------------
(* Vectors *)

\* the (cell, entry) pairs of rank r's cells that carry local dof i
Carriers(r, i) ==
  {ck \in LocalCells(r) \X {1, 2} : LocalOf(r, CellDofs(ck[1])[ck[2]]) = i}

\* assemble_vector(b, L)
assemble_vector(r, v) ==
  [i \in DOMAIN v |->
     v[i] + SumFun([ck \in Carriers(r, i) |-> ElemB(ck[1], ck[2])], Carriers(r, i))]

\* apply_lifting(b, {a}, {{bc}}, {}, 1.0): b -= A_e (g - 0) over the
\* boundary columns of each cell
Lift(r, c, k) ==
  SumFun([j \in {1, 2} |->
            LET dj == LocalOf(r, CellDofs(c)[j])
            IN IF dj \in bdofs[r] THEN ElemA(c, k, j) * u0[r][dj] ELSE 0],
         {1, 2})

apply_lifting(r, v) ==
  [i \in DOMAIN v |->
     v[i] - SumFun([ck \in Carriers(r, i) |-> Lift(r, ck[1], ck[2])], Carriers(r, i))]

\* a variant that sets the owned boundary dofs only
set_bc_owned(r, v, n) ==
  [i \in DOMAIN v |->
     IF i \in bdofs[r] /\ i < size_local(r) THEN u0[r][i] ELSE v[i]]

\* set_bc(b, {bc}): b[dof] = g[dof] for the boundary dofs below the size of b
set_bc(r, v, n) ==
  [i \in DOMAIN v |-> IF i \in bdofs[r] /\ i < n THEN u0[r][i] ELSE v[i]]

\* the entries of v that rank r holds for dofs of other ranks, by global index
GhostValues(r, v) == [g \in Ghosts(r) |-> v[LocalOf(r, g)]]

\* the owned entries of v, by global index
OwnedValues(r, v) == [g \in Owned(r) |-> v[LocalOf(r, g)]]

\* what the other ranks sent for global dof g
Received(r, g, label) ==
  SumFun([q \in Ranks |->
            IF g \in DOMAIN sendbuf[q][label] THEN sendbuf[q][label][g] ELSE 0],
         Ranks \ {r})

\* b_Tpetra.doExport(bdist_Tpetra, vec_export, ADD)
doExport(r, label) ==
  [i \in OwnedLocal(r) |-> b_eigen[r][i] + Received(r, global_indices(r)[i], label)]

\* VecGhostUpdate(ADD_VALUES, SCATTER_REVERSE)
GhostUpdateReverse(r, v, label) ==
  [i \in DOMAIN v |->
     IF i < size_local(r) THEN v[i] + Received(r, global_indices(r)[i], label) ELSE v[i]]

\* VecGhostUpdate(INSERT_VALUES, SCATTER_FORWARD)
GhostUpdateForward(r, v, label) ==
  [i \in DOMAIN v |->
     IF i < size_local(r) THEN v[i]
     ELSE sendbuf[owner[global_indices(r)[i]]][label][global_indices(r)[i]]]

SumSquaresOwned(r, v) == SumFun([i \in OwnedLocal(r) |-> v[i] * v[i]], OwnedLocal(r))

-----------------------------------------------------------------------------
(* The steps of problem(), in program order *)

\* a variant that reads the Tpetra norm before the matrix is finalized
ProgramNormBeforeFill ==
  << "create_functionspace", "DirichletBC",
     "interpolate", "create_form", "crs_graph", "crs_graph_fillComplete",
     "A_Tpetra", "assemble_matrix_Tpetra", "add_diagonal_Tpetra",
     "getFrobeniusNorm", "A_Tpetra_fillComplete", "b_eigen", "assemble_vector",
     "apply_lifting", "set_bc", "doExport", "norm2", "solver_setup",
     "create_matrix", "MatZeroEntries", "assemble_matrix_PETSc",
     "add_diagonal_PETSc", "MatAssembly", "MatNorm", "VecSet",
     "VecGhostUpdate_forward", "assemble_vector_petsc", "apply_lifting_petsc",
     "VecGhostUpdate_reverse", "set_bc_petsc", "VecNorm", "u", "cout", "return" >>

\* the statements of problem(), lines 39 to 235
Program ==
  << "create_functionspace", "DirichletBC",
     "interpolate", "create_form", "crs_graph", "crs_graph_fillComplete",
     "A_Tpetra", "assemble_matrix_Tpetra", "add_diagonal_Tpetra",
     "A_Tpetra_fillComplete", "getFrobeniusNorm", "b_eigen", "assemble_vector",
     "apply_lifting", "set_bc", "doExport", "norm2", "solver_setup",
     "create_matrix", "MatZeroEntries", "assemble_matrix_PETSc",
     "add_diagonal_PETSc", "MatAssembly", "MatNorm", "VecSet",
     "VecGhostUpdate_forward", "assemble_vector_petsc", "apply_lifting_petsc",
     "VecGhostUpdate_reverse", "set_bc_petsc", "VecNorm", "u", "cout", "return" >>

\* the calls that exchange data between the ranks
Collectives ==
  { "crs_graph_fillComplete", "A_Tpetra_fillComplete", "getFrobeniusNorm",
    "doExport", "norm2", "MatAssembly", "MatNorm", "VecGhostUpdate_forward",
    "VecGhostUpdate_reverse", "VecNorm" }

Done(r) == pc[r] = Len(Program) + 1
Thrown(r) == failure[r].raised
Label(r) == IF pc[r] <= Len(Program) THEN Program[pc[r]] ELSE "end"

At(r, label) == Label(r) = label /\ ~Thrown(r)

\* one statement of problem() that exchanges nothing
Step(r, label) ==
  /\ At(r, label)
  /\ pc' = [pc EXCEPT ![r] = @ + 1]
  /\ trace' = [trace EXCEPT ![r] = Append(@, label)]

Unspecified == {0, 1}

-----------------------------------------------------------------------------
(* Initial states: the meshes, partitions and coordinates of the bound *)

Monotone(f, D) == \A i \in D, j \in D : i <= j => f[i] <= f[j]

Blank == [r \in Ranks |-> << >>]

InitProgram ==
  /\ pc = [r \in Ranks |-> 1]
  /\ call = [r \in Ranks |-> 0]
  /\ inColl = [r \in Ranks |-> FALSE]
  /\ sendbuf = Blank
  /\ trace = Blank
  /\ V = Blank
  /\ u0 = Blank
  /\ bdofs = [r \in Ranks |-> {}]
  /\ crs_graph = Blank
  /\ A_Tpetra = Blank
  /\ nonlocals = Blank
  /\ Tpetra_norm = [r \in Ranks |-> -1]
  /\ b_eigen = Blank
  /\ b_Tpetra = Blank
  /\ A = Blank
  /\ stash = Blank
  /\ b = Blank
  /\ norm = [r \in Ranks |-> -1]
  /\ s = Blank
  /\ u = Blank
  /\ cout = Blank
  /\ result = Blank
  /\ failure = [r \in Ranks |-> NoFailure]

\* a partition into contiguous ranges, every rank owning a dof; the cells
\* between two ranks go to the one or to the other; the dofs left of some
\* dof k lie at a low coordinate, the others at a high one
Partitions ==
  {f \in [Dofs -> Ranks] : Monotone(f, Dofs) /\ \A r \in Ranks : \E d \in Dofs : f[d] = r}

Coordinates(K) ==
  {[d \in Dofs |-> IF d < k THEN xl ELSE xr] : k \in K, xl \in LowValues, xr \in HighValues}

InitMesh ==
  /\ owner \in Partitions
  /\ cellOwner \in {[c \in Cells |-> owner[c]], [c \in Cells |-> owner[c + 1]]}
  /\ coord \in Coordinates(Dofs)

\* the assembler issues the blocks of the form a and nothing else
Init ==
  /\ InitMesh
  /\ extra = [r \in Ranks |-> NoExtra]
  /\ InitProgram

\* the assembler of one rank issues one more block: one or two owned rows,
\* one or two columns, ascending
Ascending(S) == {<<x>> : x \in S} \cup {p \in S \X S : p[1] < p[2]}

ExtraBlocks(q) ==
  LET im == IndexMap(q)
  IN {[rows |-> rs, cols |-> cs] :
        rs \in Ascending(0 .. im.size_local - 1), cs \in Ascending(DOMAIN im.global_indices)}

InitOpen ==
  /\ owner \in Partitions
  /\ cellOwner = [c \in Cells |-> owner[c]]
  /\ coord = [d \in Dofs |-> IF d < 1 THEN <<0, 1>> ELSE <<2, -2>>]
  /\ extra \in {[r \in Ranks |-> NoExtra]} \cup
               UNION {{[r \in Ranks |-> IF r = q THEN e ELSE NoExtra] : e \in ExtraBlocks(q)} : q \in Ranks}
  /\ InitProgram

-----------------------------------------------------------------------------
(* Set-up: function space, boundary condition, coefficients, forms, graph *)

CreateFunctionSpace(r) ==
  /\ Step(r, "create_functionspace")
  /\ V' = [V EXCEPT ![r] = IndexMap(r)]
  /\ UNCHANGED <<owner, cellOwner, coord, extra, call, inColl, sendbuf, u0,
               bdofs, crs_graph, A_Tpetra, nonlocals, Tpetra_norm,
               b_eigen, b_Tpetra, A, stash, b, norm, s, u, cout, result,
               failure>>

\* locate_dofs_geometrical: the local dofs, ghosts included, the marker holds for
LocatedDofs(r) == {i \in LocalDofs(r) : Marker(coord[global_indices(r)[i]])}

\* u0 = 0, bdofs = locate_dofs_geometrical(V, marker), bc = DirichletBC(u0, bdofs)
MakeBC(r) ==
  /\ Step(r, "DirichletBC")
  /\ u0' = [u0 EXCEPT ![r] = Zero(LocalDofs(r))]
  /\ bdofs' = [bdofs EXCEPT ![r] = LocatedDofs(r)]
  /\ UNCHANGED <<owner, cellOwner, coord, extra, call, inColl, sendbuf, V,
               crs_graph, A_Tpetra, nonlocals, Tpetra_norm, b_eigen,
               b_Tpetra, A, stash, b, norm, s, u, cout, result, failure>>

Interpolate(r) ==
  /\ Step(r, "interpolate")
  /\ UNCHANGED <<owner, cellOwner, coord, extra, call, inColl, sendbuf, V, u0,
               bdofs, crs_graph, A_Tpetra, nonlocals, Tpetra_norm,
               b_eigen, b_Tpetra, A, stash, b, norm, s, u, cout, result,
               failure>>

CreateForms(r) ==
  /\ Step(r, "create_form")
  /\ UNCHANGED <<owner, cellOwner, coord, extra, call, inColl, sendbuf, V, u0,
               bdofs, crs_graph, A_Tpetra, nonlocals, Tpetra_norm,
               b_eigen, b_Tpetra, A, stash, b, norm, s, u, cout, result,
               failure>>

CreateGraph(r) ==
  /\ Step(r, "crs_graph")
  /\ crs_graph' = [crs_graph EXCEPT ![r] = BuildGraph(r)]
  /\ UNCHANGED <<owner, cellOwner, coord, extra, call, inColl, sendbuf, V, u0,
               bdofs, A_Tpetra, nonlocals, Tpetra_norm, b_eigen,
               b_Tpetra, A, stash, b, norm, s, u, cout, result, failure>>

-----------------------------------------------------------------------------
(* Collective calls: a rank enters, contributes, and leaves once every rank *)
(* of the communicator has entered.                                         *)

Payload(r, label) ==
  CASE label = "A_Tpetra_fillComplete" -> nonlocals[r]
    [] label = "getFrobeniusNorm" -> SumSquares(A_Tpetra[r])
    [] label = "doExport" -> GhostValues(r, b_eigen[r])
    [] label = "norm2" -> SumSquaresOwned(r, b_Tpetra[r])
    [] label = "MatAssembly" -> stash[r]
    [] label = "MatNorm" -> SumSquares(A[r])
    [] label = "VecGhostUpdate_forward" -> OwnedValues(r, b[r])
    [] label = "VecGhostUpdate_reverse" -> GhostValues(r, b[r])
    [] label = "VecNorm" -> SumSquaresOwned(r, b[r])
    [] OTHER -> 0

\* whether rank r calls the collective: the tests rank == 0 come after the
\* calls and guard the writes to s only
Calls(r, label) == TRUE

EnterCollective(r) ==
  /\ Label(r) \in Collectives
  /\ ~Thrown(r)
  /\ ~inColl[r]
  /\ IF Calls(r, Label(r))
     THEN /\ inColl' = [inColl EXCEPT ![r] = TRUE]
          /\ sendbuf' = [sendbuf EXCEPT ![r] = @ @@ (Label(r) :> Payload(r, Label(r)))]
          /\ trace' = [trace EXCEPT ![r] = Append(@, Label(r))]
          /\ pc' = pc
     ELSE /\ pc' = [pc EXCEPT ![r] = @ + 1]
          /\ UNCHANGED <<inColl, sendbuf, trace>>
  /\ UNCHANGED <<owner, cellOwner, coord, extra, call, V, u0, bdofs,
               crs_graph, A_Tpetra, nonlocals, Tpetra_norm, b_eigen,
               b_Tpetra, A, stash, b, norm, s, u, cout, result, failure>>

AllEntered(label) == \A q \in Ranks : label \in DOMAIN sendbuf[q]

Leave(r, label) ==
  /\ At(r, label)
  /\ inColl[r]
  /\ AllEntered(label)
  /\ inColl' = [inColl EXCEPT ![r] = FALSE]
  /\ pc' = [pc EXCEPT ![r] = @ + 1]

Reduced(label) == SumFun([q \in Ranks |-> sendbuf[q][label]], Ranks)

Line(text, value) == [text |-> text, value |-> value]

-----------------------------------------------------------------------------
(* The Tpetra backend *)

GraphFillComplete(r) ==
  /\ Leave(r, "crs_graph_fillComplete")
  /\ UNCHANGED <<owner, cellOwner, coord, extra, call, sendbuf, trace, V, u0,
               bdofs, crs_graph, A_Tpetra, nonlocals, Tpetra_norm,
               b_eigen, b_Tpetra, A, stash, b, norm, s, u, cout, result,
               failure>>

CreateTpetraMatrix(r) ==
  /\ Step(r, "A_Tpetra")
  /\ A_Tpetra' = [A_Tpetra EXCEPT ![r] = Zero(GraphPositions(r))]
  /\ UNCHANGED <<owner, cellOwner, coord, extra, call, inColl, sendbuf, V, u0,
               bdofs, crs_graph, nonlocals, Tpetra_norm, b_eigen,
               b_Tpetra, A, stash, b, norm, s, u, cout, result, failure>>

\* one call of the callback by the assembler that runs at `label`; the
\* assembler returns with the last block, the exception leaves problem()
InsertTpetra(r, label, blocks) ==
  /\ At(r, label)
  /\ IF call[r] < Len(blocks)
     THEN LET res == tpetra_insert(r, A_Tpetra[r], nonlocals[r], blocks[call[r] + 1])
              last == call[r] + 1 = Len(blocks) /\ ~res.failure.raised
          IN /\ A_Tpetra' = [A_Tpetra EXCEPT ![r] = res.M]
             /\ nonlocals' = [nonlocals EXCEPT ![r] = res.N]
             /\ failure' = [failure EXCEPT ![r] = res.failure]
             /\ call' = [call EXCEPT ![r] = IF last THEN 0
                                           ELSE IF res.failure.raised THEN @ ELSE @ + 1]
             /\ pc' = [pc EXCEPT ![r] = IF last THEN @ + 1 ELSE @]
             /\ trace' = [trace EXCEPT ![r] = Append(@, label)]
     ELSE /\ pc' = [pc EXCEPT ![r] = @ + 1]
          /\ trace' = [trace EXCEPT ![r] = Append(@, label)]
          /\ UNCHANGED <<A_Tpetra, nonlocals, failure, call>>
  /\ UNCHANGED <<owner, cellOwner, coord, extra, inColl, sendbuf, V, u0,
               bdofs, crs_graph, Tpetra_norm, b_eigen, b_Tpetra, A,
               stash, b, norm, s, u, cout, result>>

AssembleMatrixTpetra(r) ==
  InsertTpetra(r, "assemble_matrix_Tpetra", AssembleBlocks(r))

AddDiagonalTpetra(r) ==
  InsertTpetra(r, "add_diagonal_Tpetra", DiagonalBlocks(r))

MatrixFillComplete(r) ==
  /\ Leave(r, "A_Tpetra_fillComplete")
  /\ A_Tpetra' = [A_Tpetra EXCEPT ![r] = ReceiveStashed(r, @, "A_Tpetra_fillComplete")]
  /\ UNCHANGED <<owner, cellOwner, coord, extra, call, sendbuf, trace, V, u0,
               bdofs, crs_graph, nonlocals, Tpetra_norm, b_eigen,
               b_Tpetra, A, stash, b, norm, s, u, cout, result, failure>>

\* a variant without the test of the rank
WriteNormAlways(r, text, value) == Append(s[r], Line(text, value))

\* if (rank == 0) s << "NormA(...) = " << value
WriteNorm(r, text, value) == IF r = 0 THEN Append(s[r], Line(text, value)) ELSE s[r]

FrobeniusNorm(r) ==
  /\ Leave(r, "getFrobeniusNorm")
  /\ Tpetra_norm' = [Tpetra_norm EXCEPT ![r] = Reduced("getFrobeniusNorm")]
  /\ s' = [s EXCEPT ![r] = WriteNorm(r, "NormA(Tpetra) = ", Reduced("getFrobeniusNorm"))]
  /\ UNCHANGED <<owner, cellOwner, coord, extra, call, sendbuf, trace, V, u0,
               bdofs, crs_graph, A_Tpetra, nonlocals, b_eigen, b_Tpetra,
               A, stash, b, norm, u, cout, result, failure>>

MakeBEigen(r) ==
  /\ Step(r, "b_eigen")
  /\ b_eigen' = [b_eigen EXCEPT ![r] = Zero(LocalDofs(r))]
  /\ b_Tpetra' = [b_Tpetra EXCEPT ![r] = Zero(OwnedLocal(r))]
  /\ UNCHANGED <<owner, cellOwner, coord, extra, call, inColl, sendbuf, V, u0,
               bdofs, crs_graph, A_Tpetra, nonlocals, Tpetra_norm, A,
               stash, b, norm, s, u, cout, result, failure>>

AssembleVector(r) ==
  /\ Step(r, "assemble_vector")
  /\ b_eigen' = [b_eigen EXCEPT ![r] = assemble_vector(r, @)]
  /\ UNCHANGED <<owner, cellOwner, coord, extra, call, inColl, sendbuf, V, u0,
               bdofs, crs_graph, A_Tpetra, nonlocals, Tpetra_norm,
               b_Tpetra, A, stash, b, norm, s, u, cout, result, failure>>

ApplyLifting(r) ==
  /\ Step(r, "apply_lifting")
  /\ b_eigen' = [b_eigen EXCEPT ![r] = apply_lifting(r, @)]
  /\ UNCHANGED <<owner, cellOwner, coord, extra, call, inColl, sendbuf, V, u0,
               bdofs, crs_graph, A_Tpetra, nonlocals, Tpetra_norm,
               b_Tpetra, A, stash, b, norm, s, u, cout, result, failure>>

SetBC(r) ==
  /\ Step(r, "set_bc")
  /\ b_eigen' = [b_eigen EXCEPT ![r] = set_bc(r, @, size_local(r) + num_ghosts(r))]
  /\ UNCHANGED <<owner, cellOwner, coord, extra, call, inColl, sendbuf, V, u0,
               bdofs, crs_graph, A_Tpetra, nonlocals, Tpetra_norm,
               b_Tpetra, A, stash, b, norm, s, u, cout, result, failure>>

Export(r) ==
  /\ Leave(r, "doExport")
  /\ b_Tpetra' = [b_Tpetra EXCEPT ![r] = doExport(r, "doExport")]
  /\ UNCHANGED <<owner, cellOwner, coord, extra, call, sendbuf, trace, V, u0,
               bdofs, crs_graph, A_Tpetra, nonlocals, Tpetra_norm,
               b_eigen, A, stash, b, norm, s, u, cout, result, failure>>

Norm2(r) ==
  /\ Leave(r, "norm2")
  /\ s' = [s EXCEPT ![r] = Append(@, Line("Norm[b](Tpetra) = ", Reduced("norm2")))]
  /\ UNCHANGED <<owner, cellOwner, coord, extra, call, sendbuf, trace, V, u0,
               bdofs, crs_graph, A_Tpetra, nonlocals, Tpetra_norm,
               b_eigen, b_Tpetra, A, stash, b, norm, u, cout, result,
               failure>>

\* the MueLu preconditioner and the Belos solver are created and never used
SolverSetup(r) ==
  /\ Step(r, "solver_setup")
  /\ UNCHANGED <<owner, cellOwner, coord, extra, call, inColl, sendbuf, V, u0,
               bdofs, crs_graph, A_Tpetra, nonlocals, Tpetra_norm,
               b_eigen, b_Tpetra, A, stash, b, norm, s, u, cout, result,
               failure>>

-----------------------------------------------------------------------------
(* The PETSc backend *)

CreateMatrix(r) ==
  /\ Step(r, "create_matrix")
  /\ \E g \in Unspecified :
       /\ A' = [A EXCEPT ![r] = [p \in PatternPositions(r) |-> g]]
       /\ b' = [b EXCEPT ![r] = [i \in LocalDofs(r) |-> g]]
  /\ UNCHANGED <<owner, cellOwner, coord, extra, call, inColl, sendbuf, V, u0,
               bdofs, crs_graph, A_Tpetra, nonlocals, Tpetra_norm,
               b_eigen, b_Tpetra, stash, norm, s, u, cout, result,
               failure>>

MatZeroEntries(r) ==
  /\ Step(r, "MatZeroEntries")
  /\ A' = [A EXCEPT ![r] = Zero(DOMAIN @)]
  /\ UNCHANGED <<owner, cellOwner, coord, extra, call, inColl, sendbuf, V, u0,
               bdofs, crs_graph, A_Tpetra, nonlocals, Tpetra_norm,
               b_eigen, b_Tpetra, stash, b, norm, s, u, cout, result,
               failure>>

\* one call of add_fn by the assembler that runs at `label`
InsertPETSc(r, label, blocks) ==
  /\ At(r, label)
  /\ IF call[r] < Len(blocks)
     THEN LET res == add_fn(r, A[r], stash[r], blocks[call[r] + 1])
              last == call[r] + 1 = Len(blocks)
          IN /\ A' = [A EXCEPT ![r] = res.M]
             /\ stash' = [stash EXCEPT ![r] = res.S]
             /\ call' = [call EXCEPT ![r] = IF last THEN 0 ELSE @ + 1]
             /\ pc' = [pc EXCEPT ![r] = IF last THEN @ + 1 ELSE @]
     ELSE /\ pc' = [pc EXCEPT ![r] = @ + 1]
          /\ UNCHANGED <<A, stash, call>>
  /\ trace' = [trace EXCEPT ![r] = Append(@, label)]
  /\ UNCHANGED <<owner, cellOwner, coord, extra, inColl, sendbuf, V, u0,
               bdofs, crs_graph, A_Tpetra, nonlocals, Tpetra_norm,
               b_eigen, b_Tpetra, b, norm, s, u, cout, result, failure>>

AssembleMatrixPETSc(r) ==
  InsertPETSc(r, "assemble_matrix_PETSc", AssembleBlocks(r))

AddDiagonalPETSc(r) ==
  InsertPETSc(r, "add_diagonal_PETSc", DiagonalBlocks(r))

MatAssembly(r) ==
  /\ Leave(r, "MatAssembly")
  /\ A' = [A EXCEPT ![r] = ReceiveStash(r, @, "MatAssembly")]
  /\ UNCHANGED <<owner, cellOwner, coord, extra, call, sendbuf, trace, V, u0,
               bdofs, crs_graph, A_Tpetra, nonlocals, Tpetra_norm,
               b_eigen, b_Tpetra, stash, b, norm, s, u, cout, result,
               failure>>

MatNorm(r) ==
  /\ Leave(r, "MatNorm")
  /\ norm' = [norm EXCEPT ![r] = Reduced("MatNorm")]
  /\ s' = [s EXCEPT ![r] = WriteNorm(r, "NormA(Petsc) = ", Reduced("MatNorm"))]
  /\ UNCHANGED <<owner, cellOwner, coord, extra, call, sendbuf, trace, V, u0,
               bdofs, crs_graph, A_Tpetra, nonlocals, Tpetra_norm,
               b_eigen, b_Tpetra, A, stash, b, u, cout, result, failure>>

VecSet(r) ==
  /\ Step(r, "VecSet")
  /\ b' = [b EXCEPT ![r] = [i \in DOMAIN @ |-> IF i < size_local(r) THEN 0 ELSE @[i]]]
  /\ UNCHANGED <<owner, cellOwner, coord, extra, call, inColl, sendbuf, V, u0,
               bdofs, crs_graph, A_Tpetra, nonlocals, Tpetra_norm,
               b_eigen, b_Tpetra, A, stash, norm, s, u, cout, result,
               failure>>

GhostForward(r) ==
  /\ Leave(r, "VecGhostUpdate_forward")
  /\ b' = [b EXCEPT ![r] = GhostUpdateForward(r, @, "VecGhostUpdate_forward")]
  /\ UNCHANGED <<owner, cellOwner, coord, extra, call, sendbuf, trace, V, u0,
               bdofs, crs_graph, A_Tpetra, nonlocals, Tpetra_norm,
               b_eigen, b_Tpetra, A, stash, norm, s, u, cout, result,
               failure>>

AssembleVectorPETSc(r) ==
  /\ Step(r, "assemble_vector_petsc")
  /\ b' = [b EXCEPT ![r] = assemble_vector(r, @)]
  /\ UNCHANGED <<owner, cellOwner, coord, extra, call, inColl, sendbuf, V, u0,
               bdofs, crs_graph, A_Tpetra, nonlocals, Tpetra_norm,
               b_eigen, b_Tpetra, A, stash, norm, s, u, cout, result,
               failure>>

ApplyLiftingPETSc(r) ==
  /\ Step(r, "apply_lifting_petsc")
  /\ b' = [b EXCEPT ![r] = apply_lifting(r, @)]
  /\ UNCHANGED <<owner, cellOwner, coord, extra, call, inColl, sendbuf, V, u0,
               bdofs, crs_graph, A_Tpetra, nonlocals, Tpetra_norm,
               b_eigen, b_Tpetra, A, stash, norm, s, u, cout, result,
               failure>>

GhostReverse(r) ==
  /\ Leave(r, "VecGhostUpdate_reverse")
  /\ b' = [b EXCEPT ![r] = GhostUpdateReverse(r, @, "VecGhostUpdate_reverse")]
  /\ UNCHANGED <<owner, cellOwner, coord, extra, call, sendbuf, trace, V, u0,
               bdofs, crs_graph, A_Tpetra, nonlocals, Tpetra_norm,
               b_eigen, b_Tpetra, A, stash, norm, s, u, cout, result,
               failure>>

SetBCPETSc(r) ==
  /\ Step(r, "set_bc_petsc")
  /\ b' = [b EXCEPT ![r] = set_bc(r, @, size_local(r))]
  /\ UNCHANGED <<owner, cellOwner, coord, extra, call, inColl, sendbuf, V, u0,
               bdofs, crs_graph, A_Tpetra, nonlocals, Tpetra_norm,
               b_eigen, b_Tpetra, A, stash, norm, s, u, cout, result,
               failure>>

VecNorm(r) ==
  /\ Leave(r, "VecNorm")
  /\ norm' = [norm EXCEPT ![r] = Reduced("VecNorm")]
  /\ s' = [s EXCEPT ![r] = Append(@, Line("Norm[b](Petsc) = ", Reduced("VecNorm")))]
  /\ UNCHANGED <<owner, cellOwner, coord, extra, call, sendbuf, trace, V, u0,
               bdofs, crs_graph, A_Tpetra, nonlocals, Tpetra_norm,
               b_eigen, b_Tpetra, A, stash, b, u, cout, result, failure>>

-----------------------------------------------------------------------------
(* The result *)

NewFunction(r) == [space |-> "V", x |-> Zero(LocalDofs(r))]

MakeU(r) ==
  /\ Step(r, "u")
  /\ u' = [u EXCEPT ![r] = NewFunction(r)]
  /\ UNCHANGED <<owner, cellOwner, coord, extra, call, inColl, sendbuf, V, u0,
               bdofs, crs_graph, A_Tpetra, nonlocals, Tpetra_norm,
               b_eigen, b_Tpetra, A, stash, b, norm, s, cout, result,
               failure>>

WriteCout(r) ==
  /\ Step(r, "cout")
  /\ cout' = [cout EXCEPT ![r] = s[r]]
  /\ UNCHANGED <<owner, cellOwner, coord, extra, call, inColl, sendbuf, V, u0,
               bdofs, crs_graph, A_Tpetra, nonlocals, Tpetra_norm,
               b_eigen, b_Tpetra, A, stash, b, norm, s, u, result,
               failure>>

Handle(kind, data) == [kind |-> kind, data |-> data]

\* a variant that hands out the Tpetra objects
ReturnTpetra(r) ==
  << Handle("Tpetra::CrsMatrix", A_Tpetra[r]), Handle("Tpetra::Vector", b_Tpetra[r]),
     Handle("Function", u[r]) >>

\* return {std::move(A), std::move(b), u}
ReturnValue(r) ==
  << Handle("PETScMatrix", A[r]), Handle("PETScVector", b[r]), Handle("Function", u[r]) >>

Return(r) ==
  /\ Step(r, "return")
  /\ result' = [result EXCEPT ![r] = <<ReturnValue(r)>>]
  /\ UNCHANGED <<owner, cellOwner, coord, extra, call, inColl, sendbuf, V, u0,
               bdofs, crs_graph, A_Tpetra, nonlocals, Tpetra_norm,
               b_eigen, b_Tpetra, A, stash, b, norm, s, u, cout, failure>>

-----------------------------------------------------------------------------

Next ==
  \E r \in Ranks :
    \/ CreateFunctionSpace(r) \/ MakeBC(r)
    \/ Interpolate(r) \/ CreateForms(r) \/ CreateGraph(r)
    \/ EnterCollective(r) \/ GraphFillComplete(r)
    \/ CreateTpetraMatrix(r) \/ AssembleMatrixTpetra(r) \/ AddDiagonalTpetra(r)
    \/ MatrixFillComplete(r) \/ FrobeniusNorm(r)
    \/ MakeBEigen(r) \/ AssembleVector(r) \/ ApplyLifting(r) \/ SetBC(r)
    \/ Export(r) \/ Norm2(r) \/ SolverSetup(r)
    \/ CreateMatrix(r) \/ MatZeroEntries(r)
    \/ AssembleMatrixPETSc(r) \/ AddDiagonalPETSc(r)
    \/ MatAssembly(r) \/ MatNorm(r)
    \/ VecSet(r) \/ GhostForward(r) \/ AssembleVectorPETSc(r)
    \/ ApplyLiftingPETSc(r) \/ GhostReverse(r) \/ SetBCPETSc(r) \/ VecNorm(r)
    \/ MakeU(r) \/ WriteCout(r) \/ Return(r)

Spec == Init /\ [][Next]_vars

SpecOpen == InitOpen /\ [][Next]_vars

-----------------------------------------------------------------------------
(* Vocabulary of the properties *)

Idx(label) == CHOOSE i \in DOMAIN Program : Program[i] = label
Past(r, label) == pc[r] > Idx(label)
Has(r, label) == \E i \in DOMAIN trace[r] : trace[r][i] = label
Places(r, label) == {i \in DOMAIN trace[r] : trace[r][i] = label}
Before(r, l1, l2) ==
  Has(r, l2) => Has(r, l1) /\ \A i \in Places(r, l1), j \in Places(r, l2) : i < j

\* the collective calls rank r has entered, in order
Entered(r) == SelectSeq(trace[r], LAMBDA l : l \in Collectives)

\* the order of the exchange calls of problem()
CollectiveOrder ==
  << "crs_graph_fillComplete", "A_Tpetra_fillComplete", "getFrobeniusNorm",
     "doExport", "norm2", "MatAssembly", "MatNorm", "VecGhostUpdate_forward",
     "VecGhostUpdate_reverse", "VecNorm" >>

\* the blocks the assembler hands to tpetra_insert, and how many of them the
\* callback has returned from
TpetraBlocks(r) == AssembleBlocks(r) \o DiagonalBlocks(r)

Returned(r) ==
  IF Label(r) = "assemble_matrix_Tpetra" THEN call[r]
  ELSE IF Label(r) = "add_diagonal_Tpetra" THEN Len(AssembleBlocks(r)) + call[r]
  ELSE IF Past(r, "add_diagonal_Tpetra") THEN Len(TpetraBlocks(r))
  ELSE 0

GlobalRow(r, blk, i) == global_indices(r)[blk.rows[i]]
GlobalCol(r, blk, j) == global_indices(r)[blk.cols[j]]

\* the columns of row i of a block that the graph of rank r has
ValidCols(r, blk, i) ==
  {j \in 1 .. Len(blk.cols) :
     <<GlobalRow(r, blk, i), GlobalCol(r, blk, j)>> \in GraphPositions(r)}

\* the insertion of row i reports fewer valid entries than requested
Short(r, blk, i) ==
  /\ GlobalRow(r, blk, i) \in Owned(r)
  /\ Cardinality(ValidCols(r, blk, i)) < Len(blk.cols)

ShortRows(r, blk) == {i \in 1 .. Len(blk.rows) : Short(r, blk, i)}

\* the number a string of decimal digits denotes
RECURSIVE Denotes(_)
Denotes(ds) == IF ds = << >> THEN 0
               ELSE 10 * Denotes(SubSeq(ds, 1, Len(ds) - 1)) + ds[Len(ds)]

-----------------------------------------------------------------------------
(* C1: tpetra_insert raises a runtime failure exactly when the insertion    *)
(* of a row reports fewer valid entries than the nc requested; the message  *)
(* carries the global index global_indices[rows[i]] of that row; problem()  *)
(* raises no other failure.                                                 *)

C1_InsertionFailure ==
  \A r \in Ranks :
    /\ ~Thrown(r) => failure[r] = NoFailure
    /\ Thrown(r) => Label(r) \in {"assemble_matrix_Tpetra", "add_diagonal_Tpetra"}
    /\ Label(r) \in {"assemble_matrix_Tpetra", "add_diagonal_Tpetra"} =>
         LET blocks == TpetraBlocks(r)
             n == Returned(r)
         IN /\ \A k \in 1 .. n : ShortRows(r, blocks[k]) = {}
            /\ Thrown(r) =>
                 LET bad == ShortRows(r, blocks[n + 1])
                 IN /\ bad # {}
                    /\ failure[r].what = "Could not insert on row "
                    /\ Denotes(failure[r].row) = GlobalRow(r, blocks[n + 1], Min(bad))

\* a failure raised for a row that found one of two requested columns
C1_Witness ==
  \E r \in Ranks :
    /\ Thrown(r)
    /\ LET blk == TpetraBlocks(r)[Returned(r) + 1]
           i == Min(ShortRows(r, blk))
       IN Len(blk.cols) = 2 /\ Cardinality(ValidCols(r, blk, i)) = 1

-----------------------------------------------------------------------------
(* C10: a call of tpetra_insert sums its rows in index order; when row i    *)
(* fails, the rows before it stay summed, the rows after it are never       *)
(* attempted, and problem() is left at once: the Tpetra matrix is never     *)
(* finalized, the PETSc matrix never created, nothing is printed and        *)
(* nothing returned.                                                        *)

\* the entries (block, row, column) summed so far: the n blocks returned
\* from and, after a failure, the rows before the failed one and the valid
\* columns of the failed one
Applied(r, blocks, n) ==
  UNION {{<<k, i, j>> : i \in 1 .. Len(blocks[k].rows), j \in 1 .. Len(blocks[k].cols)} :
         k \in 1 .. n}
  \cup
  (IF Thrown(r)
   THEN LET blk == blocks[n + 1]
            bad == Min(ShortRows(r, blk))
        IN {<<n + 1, i, j>> : i \in 1 .. bad - 1, j \in 1 .. Len(blk.cols)}
           \cup {<<n + 1, bad, j>> : j \in ValidCols(r, blk, bad)}
   ELSE {})

PositionOf(r, blocks, e) ==
  <<GlobalRow(r, blocks[e[1]], e[2]), GlobalCol(r, blocks[e[1]], e[3])>>

ValueOf(blocks, e) ==
  blocks[e[1]].data[(e[2] - 1) * Len(blocks[e[1]].cols) + e[3]]

SummedAt(r, blocks, applied, p) ==
  LET here == {e \in applied : PositionOf(r, blocks, e) = p}
  IN SumFun([e \in here |-> ValueOf(blocks, e)], here)

InTpetraAssembly(r) ==
  Label(r) \in {"assemble_matrix_Tpetra", "add_diagonal_Tpetra", "A_Tpetra_fillComplete"}

C10_NoRollbackAndExit ==
  \A r \in Ranks :
    /\ InTpetraAssembly(r) =>
         LET blocks == TpetraBlocks(r)
             applied == Applied(r, blocks, Returned(r))
         IN /\ \A p \in DOMAIN A_Tpetra[r] : A_Tpetra[r][p] = SummedAt(r, blocks, applied, p)
            /\ DOMAIN nonlocals[r]
                 = {PositionOf(r, blocks, e) : e \in applied} \ DOMAIN A_Tpetra[r]
            /\ \A p \in DOMAIN nonlocals[r] : nonlocals[r][p] = SummedAt(r, blocks, applied, p)
    /\ Thrown(r) =>
         /\ InTpetraAssembly(r)
         /\ ~Has(r, "A_Tpetra_fillComplete")
         /\ DOMAIN A[r] = {} /\ DOMAIN b[r] = {}
         /\ cout[r] = << >>
         /\ result[r] = << >>

\* a failure on the second row of a call whose first row was summed
C10_Witness ==
  \E r \in Ranks :
    /\ Thrown(r)
    /\ Min(ShortRows(r, TpetraBlocks(r)[Returned(r) + 1])) = 2
    /\ \E p \in DOMAIN A_Tpetra[r] : A_Tpetra[r][p] # 0

-----------------------------------------------------------------------------
-----------------------------------------------------------------------------
(* The assembled system, position by position *)

\* the place of dof g among the dofs of cell c
PlaceIn(c, g) == CHOOSE k \in {1, 2} : CellDofs(c)[k] = g

CellsOf(D) == {c \in Cells : D \subseteq SeqSet(CellDofs(c))}

OnBoundary(g) == Marker(coord[g])

\* the value of the constrained system matrix at (g, h)
SystemMatrix(g, h) ==
  (IF OnBoundary(g) \/ OnBoundary(h) THEN 0
   ELSE SumFun([c \in CellsOf({g, h}) |-> ElemA(c, PlaceIn(c, g), PlaceIn(c, h))],
               CellsOf({g, h})))
  + (IF g = h /\ OnBoundary(g) THEN 1 ELSE 0)

\* the value of the constrained right-hand side at g
SystemVector(g) ==
  IF OnBoundary(g) THEN 0
  ELSE SumFun([c \in CellsOf({g}) |-> ElemB(c, PlaceIn(c, g))], CellsOf({g}))

\* the entry (g, h) of a distributed matrix: the owner of row g holds it
EntryOf(M, g, h) == IF <<g, h>> \in DOMAIN M[owner[g]] THEN M[owner[g]][<<g, h>>] ELSE 0

AllPast(label) == \A r \in Ranks : Past(r, label)

\* the lines of a stream with a given text
LinesOf(q, text) == {i \in DOMAIN q : q[i].text = text}

-----------------------------------------------------------------------------
(* C2: when problem() returns, the result is exactly the PETSc matrix A     *)
(* after its final assembly, the PETSc vector b after the boundary values   *)
(* were set, and a new function u on V that nothing has written to; no      *)
(* Tpetra object is part of it.                                             *)

C2_Result ==
  \A r \in Ranks :
    /\ ~Done(r) => result[r] = << >>
    /\ Done(r) =>
         /\ Len(result[r]) = 1 /\ Len(result[r][1]) = 3
         /\ LET ret == result[r][1]
            IN /\ ret[1].kind = "PETScMatrix"
               /\ DOMAIN ret[1].data = {p \in Owned(r) \X Dofs : p[2] \in Coupled(p[1])}
               /\ \A p \in DOMAIN ret[1].data : ret[1].data[p] = SystemMatrix(p[1], p[2])
               /\ ret[2].kind = "PETScVector"
               /\ DOMAIN ret[2].data = LocalDofs(r)
               /\ \A i \in OwnedLocal(r) : ret[2].data[i] = SystemVector(global_indices(r)[i])
               /\ ret[3].kind = "Function"
               /\ ret[3].data.space = "V"
               /\ ret[3].data.x = [i \in LocalDofs(r) |-> 0]

\* a rank returns a matrix with rows that other ranks contributed to
C2_Witness ==
  \E r \in Ranks :
    /\ Done(r)
    /\ \E q \in Ranks \ {r} : \E p \in DOMAIN stash[q] : p[1] \in Owned(r) /\ stash[q][p] # 0

-----------------------------------------------------------------------------
(* C3: the two backends' results and the program's reaction to them.        *)

\* the objects each statement of problem() reads
Reads(label) ==
  CASE label = "create_functionspace" -> {"mesh"}
    [] label = "DirichletBC" -> {"V"}
    [] label = "interpolate" -> {"V"}
    [] label = "create_form" -> {"V", "f", "g"}
    [] label = "crs_graph" -> {"a", "V", "mesh"}
    [] label = "crs_graph_fillComplete" -> {"crs_graph"}
    [] label = "A_Tpetra" -> {"crs_graph"}
    [] label = "assemble_matrix_Tpetra" -> {"a", "bc", "A_Tpetra"}
    [] label = "add_diagonal_Tpetra" -> {"V", "bc", "A_Tpetra"}
    [] label = "A_Tpetra_fillComplete" -> {"A_Tpetra"}
    [] label = "getFrobeniusNorm" -> {"A_Tpetra", "Tpetra_norm", "mesh"}
    [] label = "b_eigen" -> {"b_Tpetra"}
    [] label = "assemble_vector" -> {"L", "b_eigen"}
    [] label = "apply_lifting" -> {"a", "bc", "b_eigen"}
    [] label = "set_bc" -> {"bc", "b_eigen"}
    [] label = "doExport" -> {"b_eigen", "b_Tpetra"}
    [] label = "norm2" -> {"b_Tpetra"}
    [] label = "solver_setup" -> {"A_Tpetra"}
    [] label = "create_matrix" -> {"a", "L"}
    [] label = "MatZeroEntries" -> {"A"}
    [] label = "assemble_matrix_PETSc" -> {"a", "bc", "A"}
    [] label = "add_diagonal_PETSc" -> {"V", "bc", "A"}
    [] label = "MatAssembly" -> {"A"}
    [] label = "MatNorm" -> {"A", "norm", "mesh"}
    [] label = "VecSet" -> {"b"}
    [] label = "VecGhostUpdate_forward" -> {"b"}
    [] label = "assemble_vector_petsc" -> {"L", "b"}
    [] label = "apply_lifting_petsc" -> {"a", "bc", "b"}
    [] label = "VecGhostUpdate_reverse" -> {"b"}
    [] label = "set_bc_petsc" -> {"bc", "b"}
    [] label = "VecNorm" -> {"b", "norm"}
    [] label = "u" -> {"V"}
    [] label = "cout" -> {"s"}
    [] label = "return" -> {"A", "b", "u"}
    [] OTHER -> {}

TpetraResults == {"A_Tpetra", "Tpetra_norm", "b_eigen", "b_Tpetra"}
PETScResults == {"A", "b", "norm"}

\* the statements of problem() that read a result of each backend, as a
\* comparison of the two must
Comparisons ==
  {l \in SeqSet(Program) : Reads(l) \cap TpetraResults # {} /\ Reads(l) \cap PETScResults # {}}

\* C3 as stated: every run checks the PETSc result against the Tpetra result
C3_CrossValidated ==
  \A r \in Ranks : Done(r) => \E l \in Comparisons : Has(r, l)

\* C3 as amended: every run that returns has computed the matrix norm and
\* the vector norm through both backends; rank 0 writes the two matrix norms
\* and every rank the two vector norms to standard output, one line each, in
\* the order Tpetra matrix, Tpetra vector, PETSc matrix, PETSc vector; the
\* program compares none of them and returns whatever they are
C3_NormsReported ==
  \A r \in Ranks :
    Done(r) =>
      /\ [i \in DOMAIN cout[r] |-> cout[r][i].text]
           = IF r = 0
             THEN <<"NormA(Tpetra) = ", "Norm[b](Tpetra) = ", "NormA(Petsc) = ", "Norm[b](Petsc) = ">>
             ELSE <<"Norm[b](Tpetra) = ", "Norm[b](Petsc) = ">>
      /\ \A i \in LinesOf(cout[r], "NormA(Tpetra) = ") :
           cout[r][i].value = SumFun([p \in Dofs \X Dofs |-> EntryOf(A_Tpetra, p[1], p[2]) * EntryOf(A_Tpetra, p[1], p[2])], Dofs \X Dofs)
      /\ \A i \in LinesOf(cout[r], "NormA(Petsc) = ") :
           cout[r][i].value = SumFun([p \in Dofs \X Dofs |-> EntryOf(A, p[1], p[2]) * EntryOf(A, p[1], p[2])], Dofs \X Dofs)
      /\ Comparisons = {}
      /\ Len(result[r]) = 1

\* both ranks have returned and rank 0 has printed a non-zero matrix norm
C3_Witness ==
  /\ \A r \in Ranks : Done(r)
  /\ \E i \in DOMAIN cout[0] : cout[0][i].text = "NormA(Petsc) = " /\ cout[0][i].value > 0

-----------------------------------------------------------------------------
(* C4: after fillComplete and MatAssemblyEnd the Tpetra matrix and the      *)
(* PETSc matrix hold the same value at every (global row, global column),   *)
(* and the two Frobenius norms agree.                                       *)

C4_SameMatrix ==
  /\ AllPast("MatAssembly") =>
       \A g \in Dofs, h \in Dofs : EntryOf(A_Tpetra, g, h) = EntryOf(A, g, h)
  /\ \A r \in Ranks :
       Past(r, "MatNorm") /\ ~Past(r, "VecNorm") => norm[r] = Tpetra_norm[r]
  /\ Done(0) =>
       \A i \in LinesOf(cout[0], "NormA(Tpetra) = "), j \in LinesOf(cout[0], "NormA(Petsc) = ") :
         cout[0][i].value = cout[0][j].value

\* both matrices are assembled, with a non-zero entry in a row that received
\* a contribution stashed on another rank
C4_Witness ==
  /\ AllPast("MatNorm")
  /\ \E q \in Ranks : \E p \in DOMAIN nonlocals[q] :
       nonlocals[q][p] # 0 /\ EntryOf(A, p[1], p[2]) # 0

-----------------------------------------------------------------------------
(* C5: after the assembly is finalized, in either backend, the row of every *)
(* boundary dof is zero off the diagonal and 1 on it.                       *)

IdentityRow(M, g) ==
  /\ <<g, g>> \in DOMAIN M[owner[g]]
  /\ \A h \in Dofs : EntryOf(M, g, h) = IF h = g THEN 1 ELSE 0

C5_BoundaryRows ==
  \A g \in Dofs :
    OnBoundary(g) =>
      /\ Past(owner[g], "A_Tpetra_fillComplete") => IdentityRow(A_Tpetra, g)
      /\ Past(owner[g], "MatAssembly") => IdentityRow(A, g)

\* a boundary dof that another rank holds as a ghost and assembles a cell of,
\* next to an interior dof, after both assemblies
C5_Witness ==
  /\ AllPast("MatAssembly")
  /\ \E g \in Dofs, q \in Ranks :
       /\ OnBoundary(g) /\ q # owner[g] /\ g \in Ghosts(q)
       /\ \E h \in Coupled(g) : ~OnBoundary(h)

-----------------------------------------------------------------------------
(* C6: problem() performs its steps in one fixed order: the function space  *)
(* before the boundary dofs, the boundary condition and the coefficients    *)
(* before the forms, and per backend: an all-zero matrix before the first   *)
(* insertion, the insertions of assemble_matrix before those of             *)
(* add_diagonal, one finalization after them, no insertion after it, and    *)
(* the norm after the finalization.                                         *)

AllZero(M) == \A p \in DOMAIN M : M[p] = 0

BackendOrder(r, create, assemble, diagonal, finalize, readnorm) ==
  /\ Before(r, create, assemble)
  /\ Before(r, assemble, diagonal)
  /\ Before(r, assemble, finalize)
  /\ Before(r, diagonal, finalize)
  /\ Before(r, finalize, readnorm)
  /\ Cardinality(Places(r, finalize)) <= 1

C6_StepOrder ==
  \A r \in Ranks :
    /\ Before(r, "create_functionspace", "DirichletBC")
    /\ Before(r, "DirichletBC", "create_form")
    /\ Before(r, "interpolate", "create_form")
    /\ BackendOrder(r, "A_Tpetra", "assemble_matrix_Tpetra", "add_diagonal_Tpetra",
                    "A_Tpetra_fillComplete", "getFrobeniusNorm")
    /\ BackendOrder(r, "MatZeroEntries", "assemble_matrix_PETSc", "add_diagonal_PETSc",
                    "MatAssembly", "MatNorm")
    /\ Has(r, "A_Tpetra") /\ ~Has(r, "assemble_matrix_Tpetra") =>
         AllZero(A_Tpetra[r]) /\ DOMAIN nonlocals[r] = {}
    /\ Has(r, "MatZeroEntries") /\ ~Has(r, "assemble_matrix_PETSc") =>
         AllZero(A[r]) /\ DOMAIN stash[r] = {}
    /\ Past(r, "A_Tpetra_fillComplete") => Cardinality(Places(r, "A_Tpetra_fillComplete")) = 1
    /\ Past(r, "MatAssembly") => Cardinality(Places(r, "MatAssembly")) = 1
    /\ Tpetra_norm[r] # -1 => Past(r, "A_Tpetra_fillComplete")
    /\ norm[r] # -1 => Past(r, "MatAssembly")

\* a rank has returned after insertions of both assemblers into both matrices
C6_Witness ==
  \E r \in Ranks :
    /\ Done(r)
    /\ Cardinality(Places(r, "assemble_matrix_Tpetra")) > 1
    /\ DiagonalBlocks(r) # << >>
    /\ Has(r, "add_diagonal_PETSc")

-----------------------------------------------------------------------------
(* C8: the right-hand side is the same in both backends on every owned dof, *)
(* and in both every owned boundary dof ends with the boundary value zero,  *)
(* whatever the other ranks accumulated for it.                             *)

C8_SameVector ==
  \A r \in Ranks :
    /\ Past(r, "doExport") =>
         \A i \in OwnedLocal(r) \cap bdofs[r] : b_Tpetra[r][i] = 0
    /\ Past(r, "set_bc_petsc") =>
         /\ \A i \in OwnedLocal(r) : b_Tpetra[r][i] = b[r][i]
         /\ \A i \in OwnedLocal(r) \cap bdofs[r] : b[r][i] = 0
    /\ Done(r) =>
         \A i \in LinesOf(cout[r], "Norm[b](Tpetra) = "), j \in LinesOf(cout[r], "Norm[b](Petsc) = ") :
           cout[r][i].value = cout[r][j].value

\* an owned boundary dof for which another rank accumulated a non-zero
\* contribution in its ghost entry
C8_Witness ==
  \E r \in Ranks, q \in Ranks :
    /\ q # r /\ Past(r, "set_bc_petsc")
    /\ \E g \in Owned(r) \cap Ghosts(q) :
         /\ OnBoundary(g)
         /\ sendbuf[q]["VecGhostUpdate_reverse"][g] # 0

-----------------------------------------------------------------------------
(* C9: the graph and the callback use the same global numbering: owned row  *)
(* i receives, under global_indices[i], its nnz[i] column indices, the      *)
(* diagonal ones shifted by r0 and the off-diagonal ones unchanged; every   *)
(* position tpetra_insert sums into for an owned row is in the graph, and   *)
(* no such insertion reports a count different from nc.                     *)

C9_GraphNumbering ==
  \A r \in Ranks :
    /\ ~Thrown(r)
    /\ Past(r, "crs_graph") =>
         /\ DOMAIN crs_graph[r] = {global_indices(r)[i] : i \in OwnedLocal(r)}
         /\ \A i \in OwnedLocal(r) :
              LET row == crs_graph[r][global_indices(r)[i]]
                  d == diagonal_pattern(r)[i]
                  o == off_diagonal_pattern(r)[i]
              IN /\ Len(row) = nnz(r)[i]
                 /\ Len(row) = Len(d) + Len(o)
                 /\ \A k \in 1 .. Len(d) : row[k] = d[k] + r0(r)
                 /\ \A k \in 1 .. Len(o) : row[Len(d) + k] = o[k]
                 /\ SeqSet(row) = Coupled(global_indices(r)[i])
         /\ LET blocks == TpetraBlocks(r)
            IN \A k \in 1 .. Len(blocks) : ShortRows(r, blocks[k]) = {}

\* a rank whose first owned index is not 0 has summed blocks into rows with
\* diagonal and off-diagonal columns
C9_Witness ==
  \E r \in Ranks :
    /\ Past(r, "add_diagonal_Tpetra")
    /\ r0(r) > 0
    /\ Len(TpetraBlocks(r)) > 1
    /\ \E i \in OwnedLocal(r) :
         Len(off_diagonal_pattern(r)[i]) > 0 /\ Len(diagonal_pattern(r)[i]) > 1

====
